---- MODULE Spec2Model ----
(***************************************************************************)
(* Model of the AppImage bundle-assembly pipeline:                         *)
(*   cmake/LinuxDeployAppImage.cmake  (the assembly script, run with -P)   *)
(*   cmake/AppImage.cmake             (add_appimage_from_component)        *)
(* Strings are sequences of one-character strings; the file system is      *)
(* modelled by the paths the two scripts touch.                            *)
(***************************************************************************)
EXTENDS Integers, Sequences, FiniteSets, TLC

(* ------------------------------ bounds -------------------------------- *)
\* total number of pipeline runs started, over all components
MaxRuns == 2

(* --------------------------- fixed names ------------------------------ *)
Comps == {"c1", "c2"}

\* the two self-extracting tools of lines 127-137
LinuxDeploy == "linuxdeploy-x86_64.AppImage"
QtPlugin == "linuxdeploy-plugin-qt-x86_64.AppImage"
Tools == {LinuxDeploy, QtPlugin}
GtkScript == "linuxdeploy-plugin-gtk.sh"

PluginTypes == {"qt", "gtk", "wx"}

Stages == <<"Clean", "Installed", "MetadataWritten", "ToolsReady", "Deployed", "Done">>

NoFile == [none |-> TRUE]

(* ----------------------------- strings -------------------------------- *)
\* string(REPLACE find repl out input) on character sequences: every
\* non-overlapping occurrence of find, scanning left to right, is replaced;
\* replaced text is not scanned again.
RECURSIVE StringReplace(_, _, _)
StringReplace(find, repl, s) ==
    IF Len(s) < Len(find) \/ Len(find) = 0 THEN s
    ELSE IF SubSeq(s, 1, Len(find)) = find
         THEN repl \o StringReplace(find, repl, SubSeq(s, Len(find) + 1, Len(s)))
         ELSE <<s[1]>> \o StringReplace(find, repl, Tail(s))

\* display names a component may be configured with (DISPLAY_NAME)
DisplayNames == { <<"A", " ", "B">>, <<"A", "_", "B">>, <<"C">> }

\* the names the components of one build tree are configured with
Configurations ==
    { [c \in {"c1", "c2"} |-> IF c = "c1" THEN <<"A", " ", "B">> ELSE d] :
        d \in DisplayNames \ { <<"A", " ", "B">> } }

\* mutant: only the first space is replaced
sanitized_name_First(display) ==
    IF \E i \in 1..Len(display) : display[i] = " "
    THEN LET i == CHOOSE k \in 1..Len(display) :
                     display[k] = " " /\ \A j \in 1..(k - 1) : display[j] # " "
         IN  [display EXCEPT ![i] = "_"]
    ELSE display

\* mutant: the display name is used as written
sanitized_name_Verbatim(display) == display

\* string(REPLACE " " "_" sanitized_name "${ARG_DISPLAY_NAME}")
sanitized_name(display) == StringReplace(<<" ">>, <<"_">>, display)

\* appimage_full_path: ${CMAKE_BINARY_DIR}/${sanitized_name}-x86_64.AppImage
appimage_full_path(display) == sanitized_name(display) \o <<"-x86_64.AppImage">>

\* the name of the file the deployment tool writes for a descriptor Name:
\* spaces become underscores (the behaviour AppImage.cmake is written against)
RECURSIVE ToolOutputName(_)
ToolOutputName(name) ==
    IF name = <<>> THEN <<"-x86_64.AppImage">>
    ELSE <<(IF name[1] = " " THEN "_" ELSE name[1])>> \o ToolOutputName(Tail(name))

\* the paths an artifact may be looked for or written at
ArtifactPaths ==
    { appimage_full_path(d) : d \in DisplayNames } \cup { ToolOutputName(d) : d \in DisplayNames }

\* the literal patch of line 146
PatchFind == <<"l","i","b","g","t","k","-","3","-","0">>
PatchRepl == PatchFind \o <<"t","6","4">>
ApplyPatch(content) == StringReplace(PatchFind, PatchRepl, content)

\* what the script URL may serve
ScriptContents == { <<"#">>, PatchFind, <<"a", " ">> \o PatchFind \o <<" ", "b">> }

(* --------------------- CMake lists and the environment ---------------- *)
\* longest value of an extra variable, and most extra variables of one call
MaxValLen == 2
MaxEntries == 2

\* the placeholder of line 156 is kept as one symbol
Placeholder == <<"<SEMICOLON>">>

\* characters of the value of a KEY=VALUE argument
ValueChars == {"a", ";", "<SEMICOLON>"}

RECURSIVE StringsUpTo(_, _)
StringsUpTo(chars, n) ==
    IF n = 0 THEN { <<>> }
    ELSE LET shorter == StringsUpTo(chars, n - 1)
         IN  shorter \cup { Append(s, ch) : s \in shorter, ch \in chars }

\* the KEY=VALUE arguments a caller may write after EXTRA_ENV_VARS
EnvEntries == { <<"K", "=">> \o v : v \in StringsUpTo(ValueChars, MaxValLen) }

RECURSIVE ListsUpTo(_, _)
ListsUpTo(elems, n) ==
    IF n = 0 THEN { <<>> }
    ELSE LET shorter == ListsUpTo(elems, n - 1)
         IN  shorter \cup { Append(l, e) : l \in shorter, e \in elems }

RECURSIVE JoinWith(_, _)
JoinWith(l, sep) ==
    IF l = <<>> THEN <<>>
    ELSE IF Len(l) = 1 THEN l[1]
    ELSE l[1] \o <<sep>> \o JoinWith(Tail(l), sep)

\* a list as the string CMake stores: the elements joined by ";"
JoinList(l) == JoinWith(l, ";")

\* the elements of a CMake list string (the expansion of an unquoted
\* ${var}, foreach(IN LISTS)): split at every ";" that no backslash precedes;
\* "\;" gives ";" inside the element; empty elements are kept only on request.
\* cur is the element being read, out the elements read so far.
RECURSIVE ExpandFrom(_, _, _, _)
ExpandFrom(s, cur, out, keepEmpty) ==
    IF s = <<>>
    THEN IF cur # <<>> \/ (keepEmpty /\ out # <<>>) THEN Append(out, cur) ELSE out
    ELSE IF s[1] = "\\" /\ Len(s) >= 2 /\ s[2] = ";"
         THEN ExpandFrom(SubSeq(s, 3, Len(s)), Append(cur, ";"), out, keepEmpty)
    ELSE IF s[1] = ";"
         THEN ExpandFrom(Tail(s), <<>>,
                         IF cur # <<>> \/ keepEmpty THEN Append(out, cur) ELSE out,
                         keepEmpty)
    ELSE ExpandFrom(Tail(s), Append(cur, s[1]), out, keepEmpty)

ExpandList(s, keepEmpty) == ExpandFrom(s, <<>>, <<>>, keepEmpty)

\* AppImage.cmake line 26: cmake_parse_arguments(... ${ARGN}): the arguments
\* are joined into ARGN, ${ARGN} is expanded unquoted, and the values after
\* EXTRA_ENV_VARS are joined by ";" into ARG_EXTRA_ENV_VARS
ParseArguments(args) == JoinList(ExpandList(JoinList(args), FALSE))

\* AppImage.cmake lines 64-68: if(ARG_EXTRA_ENV_VARS) string(JOIN) of the one
\* quoted argument, string(REPLACE ";" "\;"); the -D argument is not added
\* when the variable is empty
FlattenDefined(argVar) == argVar # <<>>
Flatten(argVar) == StringReplace(<<";">>, <<"\\", ";">>, argVar)

\* the value the script receives: ${linuxdeploy_args} is expanded unquoted by
\* add_custom_command, and the shell reads what stands between the double
\* quotes written around the value as one word (a separator left unescaped
\* would end the argument there, and the shell would join the parts by a blank)
Transport(flat) == JoinWith(ExpandList(flat, FALSE), " ")

\* line 151
PathEntry == <<"PATH=${LINUXDEPLOY_DIR}:$ENV{PATH}">>

\* mutant: the placeholder is replaced by a bare separator
Unescape_Bare(entry) == StringReplace(Placeholder, <<";">>, entry)

\* line 156: string(REPLACE "<SEMICOLON>" "\;" ENV_VAR "${ENV_VAR}")
Unescape(entry) == StringReplace(Placeholder, <<"\\", ";">>, entry)

\* lines 155-159: foreach(ENV_VAR IN LISTS EXTRA_ENV_VARS) list(APPEND ...)
RECURSIVE AppendAll(_, _)
AppendAll(env, elems) ==
    IF elems = <<>> THEN env
    ELSE AppendAll(env \o <<";">> \o Unescape(elems[1]), Tail(elems))

\* lines 151-160: the list variable LINUXDEPLOY_ENV
LinuxDeployEnv(defined, extra) ==
    IF defined /\ extra # <<>>
    THEN AppendAll(PathEntry, ExpandList(extra, TRUE))
    ELSE PathEntry

\* line 170: cmake -E env ${LINUXDEPLOY_ENV}: the entries the tool is started with
Compose(defined, extra) == ExpandList(LinuxDeployEnv(defined, extra), FALSE)

(* ------------------------------ state --------------------------------- *)
VARIABLES
    displayName,    \* DISPLAY_NAME of each component (configure time)
    pc,             \* position of each component's build request / script run
    plugin,         \* PLUGIN_TYPE of the current run
    tool,           \* TOOL_NAME of the ensure_appimage_tool call in progress
    run,            \* number of runs of the script started, per component
    trace,          \* stages entered by the current run, in order
    failStage,      \* stage the current run failed in ("none" if it has not)
    failWhy,        \* the FATAL_ERROR (or failing command) that ended the run
    installResult,  \* INSTALL_RESULT of the current run (-1: not yet run)
    deployResult,   \* LINUXDEPLOY_RESULT of the current run (-1: not yet run)
    calledPresent,  \* the ensure call in progress found its target present
    ensured,        \* names ensure was called with in the current run
    written,        \* artifact paths written by the current run
    staging,        \* AppDir_<component>: file -> absent, old or written by this run
    desktop,        \* content of the descriptor in the staging tree
    tmp,            \* ${TOOL_PATH}.tmp of each tool
    sqroot,         \* linuxdeploy_tools/squashfs-root (whose AppRun it holds)
    toolDir,        \* linuxdeploy_tools/<tool>-squashfs-root exists
    link,           \* the symbolic link ${TOOL_PATH} exists
    script,         \* linuxdeploy_tools/linuxdeploy-plugin-gtk.sh
    scriptOrig,     \* what the last download of the script delivered
    downloads,      \* file(DOWNLOAD) calls made, per name
    artifact,       \* the file at each artifact path
    stale,          \* the component's executable is newer than its artifact
    staged,         \* what install(FILES) copied into <component>_package
    invoked,        \* the invocation of the deployment tool by the current run
    treeBefore,     \* what the staging tree held when the current run started
    given,          \* the inputs defined (-D) for the current run of the script
    direct,         \* the current run was started by hand, not by the build tool
    patched,        \* times the current run applied the text patch
    envPc,          \* position of the environment round trip
    envArgs,        \* the arguments written after EXTRA_ENV_VARS
    envVar,         \* the variable the round trip has reached (a list string)
    envDefined,     \* EXTRA_ENV_VARS is passed to the script
    envOut,         \* the entries handed to cmake -E env
    nmPc,           \* position of the evaluation of sanitized_name
    nmIn,           \* the DISPLAY_NAME sanitized_name is computed from
    nmOut           \* the value of sanitized_name

pipeVars == <<displayName, pc, plugin, tool, run, trace, failStage, failWhy,
              installResult, deployResult, calledPresent, ensured, written,
              staging, desktop, tmp, sqroot, toolDir, link, script, scriptOrig,
              downloads, artifact, stale, staged, invoked, treeBefore, given, direct, patched>>

envVars == <<envPc, envArgs, envVar, envDefined, envOut>>

nameVars == <<nmPc, nmIn, nmOut>>

\* what the pipeline's steps leave alone
pureVars == <<envVars, nameVars>>

vars == <<pipeVars, envVars, nameVars>>

StagingFiles == {"bin", "desktop", "icon", "libs"}

\* a file of a staging tree: absent, left by an earlier run, or written by the
\* run in progress (or the last one)
Absent == "absent"
Old == "old"
Fresh == "fresh"

InRun == {"clean", "install", "metadata", "ens_check", "ens_download", "ens_chmod",
          "ens_extract", "ens_rename", "ens_link", "ens_rm", "plugin", "sc_check",
          "sc_download", "sc_chmod", "patch", "deploy"}

\* positions inside ensure_appimage_tool after the presence check
EnsureBody == {"ens_download", "ens_chmod", "ens_extract", "ens_rename", "ens_link", "ens_rm"}

InitPipe ==
    /\ displayName \in Configurations
    /\ pc = [c \in Comps |-> "idle"]
    /\ plugin = [c \in Comps |-> "qt"]
    /\ tool = [c \in Comps |-> LinuxDeploy]
    /\ run = [c \in Comps |-> 0]
    /\ trace = [c \in Comps |-> <<>>]
    /\ failStage = [c \in Comps |-> "none"]
    /\ failWhy = [c \in Comps |-> "none"]
    /\ installResult = [c \in Comps |-> -1]
    /\ deployResult = [c \in Comps |-> -1]
    /\ calledPresent = [c \in Comps |-> FALSE]
    /\ ensured = [c \in Comps |-> <<>>]
    /\ written = [c \in Comps |-> {}]
    /\ staging = [c \in Comps |-> [f \in StagingFiles |-> Absent]]
    /\ desktop = [c \in Comps |-> NoFile]
    /\ tmp = [t \in Tools |-> NoFile]
    /\ sqroot = "none"
    /\ toolDir = [t \in Tools |-> FALSE]
    /\ link = [t \in Tools |-> FALSE]
    /\ script = NoFile
    /\ scriptOrig = <<>>
    /\ downloads = [n \in Tools \cup {GtkScript} |-> 0]
    /\ artifact = [p \in ArtifactPaths |-> NoFile]
    /\ stale = [c \in Comps |-> FALSE]
    /\ staged = [c \in Comps |-> NoFile]
    /\ invoked = [c \in Comps |-> NoFile]
    /\ treeBefore = [c \in Comps |-> "none"]
    /\ given = [c \in Comps |-> {}]
    /\ direct = [c \in Comps |-> FALSE]
    /\ patched = [c \in Comps |-> 0]


(* ------------------------ helpers of the scripts ---------------------- *)
Running(c) == pc[c] \in InRun

TotalRuns == run["c1"] + run["c2"]

ArtifactPathOf(c) == appimage_full_path(displayName[c])

\* mutant: the unit is up to date as soon as its output exists
UpToDate_Exists(c) == artifact[ArtifactPathOf(c)] # NoFile

\* add_custom_command(OUTPUT artifact DEPENDS executable): the unit is up to
\* date when the output exists and is newer than the executable
UpToDate(c) == artifact[ArtifactPathOf(c)] # NoFile /\ ~stale[c]

\* mutant: a tool another run is acquiring counts as present
ToolExists_OrBusy(t) ==
    \/ link[t] /\ toolDir[t]
    \/ \E d \in Comps : tool[d] = t /\ pc[d] \in EnsureBody

\* mutant: the presence check never finds the tool
ToolExists_Never(t) == FALSE

\* if(EXISTS "${TOOL_PATH}"): a symbolic link exists when its target does
ToolExists(t) == link[t] /\ toolDir[t]

\* if(EXISTS "${SCRIPT_PATH}")
ScriptExists == script # NoFile

\* the inputs of the script (-D on its command line)
Required == {"COMPONENT_NAME", "APP_NAME", "EXECUTABLE_NAME"}
Inputs == Required \cup {"PLUGIN_TYPE"}

\* mutant: no input is required
MissingRequired_Never(defined) == FALSE

\* lines 6-16: if(NOT DEFINED ...) message(FATAL_ERROR ...)
MissingRequired(defined) == Required \ defined # {}

\* lines 18-20: if(NOT DEFINED PLUGIN_TYPE) set(PLUGIN_TYPE "qt")
PluginTypeOf(c) == IF "PLUGIN_TYPE" \in given[c] THEN plugin[c] ELSE "qt"

\* mutant: the old tree is kept
CleanTree_Keep(c) == staging[c]

\* file(REMOVE_RECURSE "${APPDIR}")
CleanTree(c) == [f \in StagingFiles |-> Absent]

\* mutant: the result of the install is not looked at
InstallFailed_Ignored(r) == FALSE

\* if(NOT INSTALL_RESULT EQUAL 0)
InstallFailed(r) == r # 0

\* if(NOT EXTRACT_RESULT EQUAL 0)
ExtractFailed(r) == r # 0

\* mutant: the result of the deployment tool is not looked at
DeployFailed_Ignored(r) == FALSE

\* if(NOT LINUXDEPLOY_RESULT EQUAL 0)
DeployFailed(r) == r # 0

\* file(RENAME squashfs-root <tool>-squashfs-root): rename(2) of a directory
\* fails when the source is missing or the destination is a non-empty directory
RenameFails(t) == sqroot = "none" \/ toolDir[t]

\* DESKTOP_CONTENT: Name=${APP_NAME}, Exec=${EXECUTABLE_NAME}
DesktopContent(c) == [name |-> displayName[c], exec |-> c]

\* mutant: the plugin branch is skipped
AfterEnsure_Deploy(c) == "deploy"

\* where the script continues after ensure_appimage_tool returns
AfterEnsure(c) == IF tool[c] = LinuxDeploy THEN "plugin" ELSE "deploy"

\* message(FATAL_ERROR ...): the script stops in the stage it is in
Fail(c, stage, why) ==
    /\ pc' = [pc EXCEPT ![c] = "failed"]
    /\ failStage' = [failStage EXCEPT ![c] = stage]
    /\ failWhy' = [failWhy EXCEPT ![c] = why]

NoFail == UNCHANGED <<failStage, failWhy>>

(* ------------------------- PackagingIntegration ----------------------- *)
\* a staging tree as a run finds it
TreeKind(tree) ==
    IF \A f \in StagingFiles : tree[f] = Absent THEN "absent"
    ELSE IF \A f \in StagingFiles : tree[f] # Absent THEN "complete"
    ELSE "partial"

\* what an earlier run left is no longer of "this run"
Age(tree) == [f \in StagingFiles |-> IF tree[f] = Absent THEN Absent ELSE Old]
AgeArtifacts(c) ==
    [p \in ArtifactPaths |->
        IF artifact[p] # NoFile /\ artifact[p].by = c
        THEN [artifact[p] EXCEPT !.fresh = FALSE] ELSE artifact[p]]

\* cmake --build --target create_appimage_<component>: nothing to do when the
\* unit is up to date, otherwise the custom command runs the script
BuildRequest(c) ==
    /\ pc[c] = "idle"
    /\ IF UpToDate(c)
       THEN /\ pc' = [pc EXCEPT ![c] = "uptodate"]
            /\ UNCHANGED <<displayName, plugin, tool, run, trace, failStage, failWhy,
                           installResult, deployResult, calledPresent, ensured,
                           written, staging, desktop, tmp, sqroot, toolDir, link,
                           script, scriptOrig, downloads, artifact, stale, staged,
                           invoked, treeBefore, given, direct, patched>>
       ELSE /\ TotalRuns < MaxRuns
            /\ \E p \in PluginTypes : plugin' = [plugin EXCEPT ![c] = p]
            /\ pc' = [pc EXCEPT ![c] = "clean"]
            /\ run' = [run EXCEPT ![c] = @ + 1]
            /\ staging' = [staging EXCEPT ![c] = Age(@)]
            /\ artifact' = AgeArtifacts(c)
            /\ treeBefore' = [treeBefore EXCEPT ![c] = TreeKind(staging[c])]
            /\ given' = [given EXCEPT ![c] = Inputs]
            /\ UNCHANGED <<displayName, tool, trace, failStage, failWhy,
                           installResult, deployResult, calledPresent, ensured,
                           written, desktop, tmp, sqroot, toolDir, link, script,
                           scriptOrig, downloads, stale, staged, invoked, direct,
                           patched>>

\* the build tool returns: what the script's process held is gone
Return(c) ==
    /\ pc' = [pc EXCEPT ![c] = "idle"]
    /\ plugin' = [plugin EXCEPT ![c] = "qt"]
    /\ tool' = [tool EXCEPT ![c] = LinuxDeploy]
    /\ trace' = [trace EXCEPT ![c] = <<>>]
    /\ failStage' = [failStage EXCEPT ![c] = "none"]
    /\ failWhy' = [failWhy EXCEPT ![c] = "none"]
    /\ installResult' = [installResult EXCEPT ![c] = -1]
    /\ deployResult' = [deployResult EXCEPT ![c] = -1]
    /\ calledPresent' = [calledPresent EXCEPT ![c] = FALSE]
    /\ ensured' = [ensured EXCEPT ![c] = <<>>]
    /\ written' = [written EXCEPT ![c] = {}]
    /\ invoked' = [invoked EXCEPT ![c] = NoFile]
    /\ treeBefore' = [treeBefore EXCEPT ![c] = "none"]
    /\ given' = [given EXCEPT ![c] = {}]
    /\ direct' = [direct EXCEPT ![c] = FALSE]
    /\ patched' = [patched EXCEPT ![c] = 0]

\* mutant: install(CODE) takes every build that ended by itself for a success
BuildOk_NotKilled(c) == pc[c] # "crashed"

\* mutant: install(CODE) does not look at the result of the build
BuildOk_Always(c) == TRUE

\* the result of the build step of install(CODE ...) is zero
BuildOk(c) == pc[c] \in {"done", "uptodate"}

\* install(CODE): result EQUAL 0, then install(FILES "${appimage_full_path}")
InstallFiles(c) ==
    /\ pc[c] \in {"done", "uptodate", "failed", "crashed"}
    /\ ~direct[c]
    /\ BuildOk(c)
    /\ staged' = [staged EXCEPT ![c] =
                    IF artifact[ArtifactPathOf(c)] # NoFile
                    THEN [file |-> artifact[ArtifactPathOf(c)], after |-> pc[c]]
                    ELSE @]
    /\ Return(c)
    /\ UNCHANGED <<displayName, run, staging, desktop, tmp, sqroot, toolDir, link,
                   script, scriptOrig, downloads, artifact, stale>>

\* install(CODE): NOT result EQUAL 0 -> FATAL_ERROR, install(FILES) is not reached
InstallFatal(c) ==
    /\ pc[c] \in {"done", "uptodate", "failed", "crashed"}
    /\ ~direct[c]
    /\ ~BuildOk(c)
    /\ Return(c)
    /\ UNCHANGED <<displayName, run, staging, desktop, tmp, sqroot, toolDir, link,
                   script, scriptOrig, downloads, artifact, stale, staged>>

\* the target is built on its own, outside of the install step
BuildOnly(c) ==
    /\ pc[c] \in {"done", "uptodate"}
    /\ ~direct[c]
    /\ Return(c)
    /\ UNCHANGED <<displayName, run, staging, desktop, tmp, sqroot, toolDir, link,
                   script, scriptOrig, downloads, artifact, stale, staged>>

\* the executable named in DEPENDS is rebuilt
TouchExe(c) ==
    /\ pc[c] = "idle"
    /\ ~stale[c]
    /\ stale' = [stale EXCEPT ![c] = TRUE]
    /\ UNCHANGED <<displayName, pc, plugin, tool, run, trace, failStage, failWhy,
                   installResult, deployResult, calledPresent, ensured, written,
                   staging, desktop, tmp, sqroot, toolDir, link, script, scriptOrig,
                   downloads, artifact, staged, invoked, treeBefore, given, direct, patched>>

\* the script's process is killed (no handler runs, nothing is cleaned up)
Crash(c) ==
    /\ Running(c)
    /\ pc' = [pc EXCEPT ![c] = "crashed"]
    /\ UNCHANGED <<displayName, plugin, tool, run, trace, failStage, failWhy,
                   installResult, deployResult, calledPresent, ensured, written,
                   staging, desktop, tmp, sqroot, toolDir, link, script, scriptOrig,
                   downloads, artifact, stale, staged, invoked, treeBefore, given, direct, patched>>


(* ------------------- LinuxDeployAppImage.cmake: stages ---------------- *)
Enter(c, stage) == trace' = [trace EXCEPT ![c] = Append(@, stage)]

\* the start of the script, lines 6-97: the checks of the required inputs, the
\* default of PLUGIN_TYPE, then Clean: file(REMOVE_RECURSE "${APPDIR}"); an
\* absent tree is not an error
Clean(c) ==
    /\ pc[c] = "clean"
    /\ IF MissingRequired(given[c])
       THEN /\ Fail(c, "Configuration", "config")
            /\ UNCHANGED <<trace, staging, desktop, plugin>>
       ELSE /\ Enter(c, "Clean")
            /\ plugin' = [plugin EXCEPT ![c] = PluginTypeOf(c)]
            /\ staging' = [staging EXCEPT ![c] = CleanTree(c)]
            /\ desktop' = [desktop EXCEPT ![c] =
                             IF CleanTree(c)["desktop"] = Absent THEN NoFile ELSE @]
            /\ pc' = [pc EXCEPT ![c] = "install"]
            /\ NoFail
    /\ UNCHANGED <<displayName, tool, run, installResult, deployResult,
                   calledPresent, ensured, written, tmp, sqroot, toolDir, link,
                   script, scriptOrig, downloads, artifact, stale, staged, invoked, treeBefore, given, direct, patched>>

\* Installed: cmake --install --component --prefix ${APPDIR}/usr/bin, then the
\* INSTALL_RESULT check; a failing install may leave part of the tree behind
Install(c) ==
    /\ pc[c] = "install"
    /\ Enter(c, "Installed")
    /\ \E r \in {0, 1} :
        /\ installResult' = [installResult EXCEPT ![c] = r]
        /\ IF InstallFailed(r)
           THEN /\ \E partial \in BOOLEAN :
                     staging' = [staging EXCEPT ![c]["bin"] = IF partial THEN Fresh ELSE Absent]
                /\ Fail(c, "Installed", "install")
           ELSE /\ staging' = [staging EXCEPT ![c]["bin"] = IF r = 0 THEN Fresh ELSE @]
                /\ pc' = [pc EXCEPT ![c] = "metadata"]
                /\ NoFail
    /\ UNCHANGED <<displayName, plugin, tool, run, deployResult, calledPresent,
                   ensured, written, desktop, tmp, sqroot, toolDir, link, script,
                   scriptOrig, downloads, artifact, stale, staged, invoked, treeBefore, given, direct, patched>>

\* MetadataWritten: the .desktop file and the icon placeholder; then the script
\* calls ensure_appimage_tool for linuxdeploy
Metadata(c) ==
    /\ pc[c] = "metadata"
    /\ Enter(c, "MetadataWritten")
    /\ desktop' = [desktop EXCEPT ![c] = DesktopContent(c)]
    /\ staging' = [staging EXCEPT ![c]["desktop"] = Fresh, ![c]["icon"] = Fresh]
    /\ tool' = [tool EXCEPT ![c] = LinuxDeploy]
    /\ pc' = [pc EXCEPT ![c] = "ens_check"]
    /\ NoFail
    /\ UNCHANGED <<displayName, plugin, run, installResult, deployResult,
                   calledPresent, ensured, written, tmp, sqroot, toolDir, link,
                   script, scriptOrig, downloads, artifact, stale, staged, invoked, treeBefore, given, direct, patched>>

(* ----------------------- ensure_appimage_tool ------------------------- *)
\* if(EXISTS "${TOOL_PATH}") return()
EnsureCheck(c) ==
    /\ pc[c] = "ens_check"
    /\ trace' = [trace EXCEPT ![c] = IF tool[c] = LinuxDeploy THEN Append(@, "ToolsReady") ELSE @]
    /\ ensured' = [ensured EXCEPT ![c] = Append(@, tool[c])]
    /\ calledPresent' = [calledPresent EXCEPT ![c] = link[tool[c]]]
    /\ pc' = [pc EXCEPT ![c] = IF ToolExists(tool[c]) THEN AfterEnsure(c) ELSE "ens_download"]
    /\ NoFail
    /\ UNCHANGED <<displayName, plugin, tool, run, installResult, deployResult,
                   written, staging, desktop, tmp, sqroot, toolDir, link, script,
                   scriptOrig, downloads, artifact, stale, staged, invoked, treeBefore, given, direct, patched>>

\* file(DOWNLOAD url "${TOOL_PATH}.tmp"): no STATUS is read, so a failed
\* transfer is not an error of the script; it leaves an incomplete file. A
\* file that is already there is written over and keeps its mode.
EnsureDownload(c) ==
    /\ pc[c] = "ens_download"
    /\ \E ok \in BOOLEAN :
         tmp' = [tmp EXCEPT ![tool[c]] =
                   [complete |-> ok, exec |-> (@ # NoFile /\ @.exec)]]
    /\ downloads' = [downloads EXCEPT ![tool[c]] = @ + 1]
    /\ pc' = [pc EXCEPT ![c] = "ens_chmod"]
    /\ NoFail
    /\ UNCHANGED <<displayName, plugin, tool, run, trace, installResult,
                   deployResult, calledPresent, ensured, written, staging, desktop,
                   sqroot, toolDir, link, script, scriptOrig, artifact, stale, staged, invoked, treeBefore, given, direct, patched>>

\* execute_process(COMMAND chmod +x "${TOOL_PATH}.tmp"): the result is not read
EnsureChmod(c) ==
    /\ pc[c] = "ens_chmod"
    /\ \E ok \in BOOLEAN :
         tmp' = [tmp EXCEPT ![tool[c]] =
                   IF @ # NoFile /\ ok THEN [@ EXCEPT !.exec = TRUE] ELSE @]
    /\ pc' = [pc EXCEPT ![c] = "ens_extract"]
    /\ NoFail
    /\ UNCHANGED <<displayName, plugin, tool, run, trace, installResult,
                   deployResult, calledPresent, ensured, written, staging, desktop,
                   sqroot, toolDir, link, script, scriptOrig, downloads, artifact,
                   stale, staged, invoked, treeBefore, given, direct, patched>>

\* the results "${TOOL_PATH}.tmp" --appimage-extract can give: a file that is
\* incomplete or not executable cannot give 0
ExtractResults(t) ==
    IF tmp[t] # NoFile /\ tmp[t].complete /\ tmp[t].exec THEN {0, 1} ELSE {1}

\* execute_process(... --appimage-extract), then the EXTRACT_RESULT check
EnsureExtract(c) ==
    /\ pc[c] = "ens_extract"
    /\ \E r \in ExtractResults(tool[c]) :
        IF ExtractFailed(r)
        THEN /\ Fail(c, "ToolsReady", "extract")
             /\ UNCHANGED sqroot
        ELSE /\ sqroot' = tool[c]
             /\ pc' = [pc EXCEPT ![c] = "ens_rename"]
             /\ NoFail
    /\ UNCHANGED <<displayName, plugin, tool, run, trace, installResult,
                   deployResult, calledPresent, ensured, written, staging, desktop,
                   tmp, toolDir, link, script, scriptOrig, downloads, artifact,
                   stale, staged, invoked, treeBefore, given, direct, patched>>

\* file(RENAME squashfs-root ${TOOL_NAME}-squashfs-root): fatal when it fails
EnsureRename(c) ==
    /\ pc[c] = "ens_rename"
    /\ IF RenameFails(tool[c])
       THEN /\ Fail(c, "ToolsReady", "rename")
            /\ UNCHANGED <<sqroot, toolDir>>
       ELSE /\ toolDir' = [toolDir EXCEPT ![tool[c]] = TRUE]
            /\ sqroot' = "none"
            /\ pc' = [pc EXCEPT ![c] = "ens_link"]
            /\ NoFail
    /\ UNCHANGED <<displayName, plugin, tool, run, trace, installResult,
                   deployResult, calledPresent, ensured, written, staging, desktop,
                   tmp, link, script, scriptOrig, downloads, artifact, stale, staged, invoked, treeBefore, given, direct, patched>>

\* file(CREATE_LINK <tool>-squashfs-root/AppRun "${TOOL_PATH}" SYMBOLIC)
EnsureLink(c) ==
    /\ pc[c] = "ens_link"
    /\ link' = [link EXCEPT ![tool[c]] = TRUE]
    /\ pc' = [pc EXCEPT ![c] = "ens_rm"]
    /\ NoFail
    /\ UNCHANGED <<displayName, plugin, tool, run, trace, installResult,
                   deployResult, calledPresent, ensured, written, staging, desktop,
                   tmp, sqroot, toolDir, script, scriptOrig, downloads, artifact,
                   stale, staged, invoked, treeBefore, given, direct, patched>>

\* mutant: file(REMOVE) is given the tool's own path
RemoveTmp_Tool(c) == [tmp |-> tmp, link |-> [link EXCEPT ![tool[c]] = FALSE]]

\* file(REMOVE "${TOOL_PATH}.tmp"): what it leaves of the download and the link
RemoveTmp(c) == [tmp |-> [tmp EXCEPT ![tool[c]] = NoFile], link |-> link]

\* file(REMOVE "${TOOL_PATH}.tmp"), and the function returns
EnsureRm(c) ==
    /\ pc[c] = "ens_rm"
    /\ tmp' = RemoveTmp(c).tmp
    /\ link' = RemoveTmp(c).link
    /\ pc' = [pc EXCEPT ![c] = AfterEnsure(c)]
    /\ NoFail
    /\ UNCHANGED <<displayName, plugin, tool, run, trace, installResult,
                   deployResult, calledPresent, ensured, written, staging, desktop,
                   sqroot, toolDir, script, scriptOrig, downloads, artifact,
                   stale, staged, invoked, treeBefore, given, direct, patched>>


(* -------------------- plugin branch, script, patch -------------------- *)
\* if(PLUGIN_TYPE STREQUAL "qt") ... elseif(PLUGIN_TYPE STREQUAL "gtk") ... endif()
PluginBranch(c) ==
    /\ pc[c] = "plugin"
    /\ tool' = [tool EXCEPT ![c] = IF plugin[c] = "qt" THEN QtPlugin ELSE @]
    /\ pc' = [pc EXCEPT ![c] = IF plugin[c] = "qt" THEN "ens_check"
                               ELSE IF plugin[c] = "gtk" THEN "sc_check"
                               ELSE "deploy"]
    /\ NoFail
    /\ UNCHANGED <<displayName, plugin, run, trace, installResult, deployResult,
                   calledPresent, ensured, written, staging, desktop, tmp, sqroot,
                   toolDir, link, script, scriptOrig, downloads, artifact, stale,
                   staged, invoked, treeBefore, given, direct, patched>>

\* ensure_shell_script: if(EXISTS "${SCRIPT_PATH}") return()
ScriptCheck(c) ==
    /\ pc[c] = "sc_check"
    /\ ensured' = [ensured EXCEPT ![c] = Append(@, GtkScript)]
    /\ calledPresent' = [calledPresent EXCEPT ![c] = script # NoFile]
    /\ pc' = [pc EXCEPT ![c] = IF ScriptExists THEN "patch" ELSE "sc_download"]
    /\ NoFail
    /\ UNCHANGED <<displayName, plugin, tool, run, trace, installResult,
                   deployResult, written, staging, desktop, tmp, sqroot, toolDir,
                   link, script, scriptOrig, downloads, artifact, stale, staged,
                   invoked, treeBefore, given, direct, patched>>

\* file(DOWNLOAD url "${SCRIPT_PATH}"): straight to the final path; a failed
\* transfer is not an error of the script and leaves an incomplete file
ScriptDownload(c) ==
    /\ pc[c] = "sc_download"
    /\ \/ \E s \in ScriptContents :
            /\ script' = [content |-> s, complete |-> TRUE, exec |-> FALSE]
            /\ scriptOrig' = s
       \/ /\ script' = [content |-> <<>>, complete |-> FALSE, exec |-> FALSE]
          /\ scriptOrig' = <<>>
    /\ downloads' = [downloads EXCEPT ![GtkScript] = @ + 1]
    /\ pc' = [pc EXCEPT ![c] = "sc_chmod"]
    /\ NoFail
    /\ UNCHANGED <<displayName, plugin, tool, run, trace, installResult,
                   deployResult, calledPresent, ensured, written, staging, desktop,
                   tmp, sqroot, toolDir, link, artifact, stale, staged, invoked, treeBefore, given, direct, patched>>

\* execute_process(COMMAND chmod +x "${SCRIPT_PATH}"), and the function returns
ScriptChmod(c) ==
    /\ pc[c] = "sc_chmod"
    /\ script' = IF script # NoFile THEN [script EXCEPT !.exec = TRUE] ELSE script
    /\ pc' = [pc EXCEPT ![c] = "patch"]
    /\ NoFail
    /\ UNCHANGED <<displayName, plugin, tool, run, trace, installResult,
                   deployResult, calledPresent, ensured, written, staging, desktop,
                   tmp, sqroot, toolDir, link, scriptOrig, downloads, artifact,
                   stale, staged, invoked, treeBefore, given, direct, patched>>

\* lines 145-147: file(READ), string(REPLACE), file(WRITE) on the cached script,
\* on every run with PLUGIN_TYPE gtk
Patch(c) ==
    /\ pc[c] = "patch"
    /\ script # NoFile
    /\ script' = [script EXCEPT !.content = ApplyPatch(@)]
    /\ patched' = [patched EXCEPT ![c] = @ + 1]
    /\ pc' = [pc EXCEPT ![c] = "deploy"]
    /\ NoFail
    /\ UNCHANGED <<displayName, plugin, tool, run, trace, installResult,
                   deployResult, calledPresent, ensured, written, staging, desktop,
                   tmp, sqroot, toolDir, link, scriptOrig, downloads, artifact,
                   stale, staged, invoked, treeBefore, given, direct>>

(* ------------------------------ deploy -------------------------------- *)
\* the arguments each component's CMakeLists.txt writes after EXTRA_ENV_VARS
ExtraEnvArgs(c) ==
    IF c = "c1" THEN <<>> ELSE << <<"K", "=", "a", "<SEMICOLON>", "a">> >>

\* the environment of the deployment tool for the arguments of a component
EnvOf(args) ==
    LET argVar == ParseArguments(args)
        defined == FlattenDefined(argVar)
    IN  Compose(defined, IF defined THEN Transport(Flatten(argVar)) ELSE <<>>)

\* the results the deployment tool can give: it cannot start when the link
\* ${LINUXDEPLOY_DIR}/linuxdeploy-x86_64.AppImage does not exist
DeployResults == IF ToolExists(LinuxDeploy) THEN {0, 1} ELSE {1}

\* Deployed: cmake -E env ${LINUXDEPLOY_ENV} linuxdeploy --appdir --plugin
\* --output appimage, then the LINUXDEPLOY_RESULT check. The tool names its
\* output after the Name of the descriptor it finds in the staging tree.
Deploy(c) ==
    /\ pc[c] = "deploy"
    /\ invoked' = [invoked EXCEPT ![c] =
                     [env |-> EnvOf(ExtraEnvArgs(c)), plugin |-> plugin[c], appdir |-> c]]
    /\ \E r \in DeployResults :
        /\ deployResult' = [deployResult EXCEPT ![c] = r]
        /\ IF DeployFailed(r)
           THEN /\ Enter(c, "Deployed")
                /\ Fail(c, "Deployed", "deploy")
                /\ UNCHANGED <<artifact, written, stale, staging>>
           ELSE LET out == ToolOutputName(desktop[c].name)
                IN  /\ trace' = [trace EXCEPT ![c] = @ \o <<"Deployed", "Done">>]
                    /\ IF r = 0
                       THEN /\ artifact' = [artifact EXCEPT ![out] = [by |-> c, fresh |-> TRUE]]
                            /\ written' = [written EXCEPT ![c] = @ \cup {out}]
                            /\ stale' = [d \in Comps |->
                                           IF ArtifactPathOf(d) = out THEN FALSE ELSE stale[d]]
                            /\ staging' = [staging EXCEPT ![c]["libs"] = Fresh]
                       ELSE UNCHANGED <<artifact, written, stale, staging>>
                    /\ pc' = [pc EXCEPT ![c] = "done"]
                    /\ NoFail
    /\ UNCHANGED <<displayName, plugin, tool, run, installResult, calledPresent,
                   ensured, desktop, tmp, sqroot, toolDir, link, script, scriptOrig,
                   downloads, staged, treeBefore, given, direct, patched>>

(* --------------------------- specification ---------------------------- *)
EnvIdle ==
    /\ envPc = "off"
    /\ envArgs = <<>>
    /\ envVar = <<>>
    /\ envDefined = FALSE
    /\ envOut = <<>>

NameIdle ==
    /\ nmPc = "off"
    /\ nmIn = <<>>
    /\ nmOut = <<>>

Init == InitPipe /\ EnvIdle /\ NameIdle

\* one build runs at a time: the custom commands of one build tree are run by
\* one build tool invocation after the other
Sequential(c) == \A d \in Comps \ {c} : pc[d] = "idle"

Next ==
    \E c \in Comps :
        \/ (Sequential(c) /\ BuildRequest(c) /\ UNCHANGED pureVars)
        \/ (InstallFiles(c) /\ UNCHANGED pureVars)
        \/ (InstallFatal(c) /\ UNCHANGED pureVars)
        \/ (BuildOnly(c) /\ UNCHANGED pureVars)
        \/ (TouchExe(c) /\ UNCHANGED pureVars)
        \/ (Crash(c) /\ UNCHANGED pureVars)
        \/ (Clean(c) /\ UNCHANGED pureVars)
        \/ (Install(c) /\ UNCHANGED pureVars)
        \/ (Metadata(c) /\ UNCHANGED pureVars)
        \/ (EnsureCheck(c) /\ UNCHANGED pureVars)
        \/ (EnsureDownload(c) /\ UNCHANGED pureVars)
        \/ (EnsureChmod(c) /\ UNCHANGED pureVars)
        \/ (EnsureExtract(c) /\ UNCHANGED pureVars)
        \/ (EnsureRename(c) /\ UNCHANGED pureVars)
        \/ (EnsureLink(c) /\ UNCHANGED pureVars)
        \/ (EnsureRm(c) /\ UNCHANGED pureVars)
        \/ (PluginBranch(c) /\ UNCHANGED pureVars)
        \/ (ScriptCheck(c) /\ UNCHANGED pureVars)
        \/ (ScriptDownload(c) /\ UNCHANGED pureVars)
        \/ (ScriptChmod(c) /\ UNCHANGED pureVars)
        \/ (Patch(c) /\ UNCHANGED pureVars)
        \/ (Deploy(c) /\ UNCHANGED pureVars)

Spec == Init /\ [][Next]_vars

(* ------------------- components built in parallel -------------------- *)
\* one invocation of the build tool runs the rule of a target at most once
OncePerBuild(c) == run[c] = 0

\* one invocation of the build tool (make -j, ninja) for the targets of all
\* components: it runs their custom commands at the same time, and the steps
\* of their runs interleave
NextPar ==
    \E c \in Comps :
        \/ (OncePerBuild(c) /\ BuildRequest(c) /\ UNCHANGED pureVars)
        \/ (BuildOnly(c) /\ UNCHANGED pureVars)
        \/ (Crash(c) /\ UNCHANGED pureVars)
        \/ (Clean(c) /\ UNCHANGED pureVars)
        \/ (Install(c) /\ UNCHANGED pureVars)
        \/ (Metadata(c) /\ UNCHANGED pureVars)
        \/ (EnsureCheck(c) /\ UNCHANGED pureVars)
        \/ (EnsureDownload(c) /\ UNCHANGED pureVars)
        \/ (EnsureChmod(c) /\ UNCHANGED pureVars)
        \/ (EnsureExtract(c) /\ UNCHANGED pureVars)
        \/ (EnsureRename(c) /\ UNCHANGED pureVars)
        \/ (EnsureLink(c) /\ UNCHANGED pureVars)
        \/ (EnsureRm(c) /\ UNCHANGED pureVars)
        \/ (PluginBranch(c) /\ UNCHANGED pureVars)
        \/ (ScriptCheck(c) /\ UNCHANGED pureVars)
        \/ (ScriptDownload(c) /\ UNCHANGED pureVars)
        \/ (ScriptChmod(c) /\ UNCHANGED pureVars)
        \/ (Patch(c) /\ UNCHANGED pureVars)
        \/ (Deploy(c) /\ UNCHANGED pureVars)

SpecPar == Init /\ [][NextPar]_vars

(* ------------- the script started by hand: cmake ... -P --------------- *)
\* cmake [-D<input>=...] -P LinuxDeployAppImage.cmake from a command line: any
\* of the inputs may be left out
DirectRun(c) ==
    /\ pc[c] = "idle"
    /\ TotalRuns < MaxRuns
    /\ \E g \in SUBSET Inputs :
         /\ given' = [given EXCEPT ![c] = g]
         /\ IF "PLUGIN_TYPE" \in g
            THEN \E p \in PluginTypes : plugin' = [plugin EXCEPT ![c] = p]
            ELSE plugin' = [plugin EXCEPT ![c] = "undefined"]
    /\ direct' = [direct EXCEPT ![c] = TRUE]
    /\ pc' = [pc EXCEPT ![c] = "clean"]
    /\ run' = [run EXCEPT ![c] = @ + 1]
    /\ staging' = [staging EXCEPT ![c] = Age(@)]
    /\ artifact' = AgeArtifacts(c)
    /\ treeBefore' = [treeBefore EXCEPT ![c] = TreeKind(staging[c])]
    /\ UNCHANGED <<displayName, tool, trace, failStage, failWhy, installResult,
                   deployResult, calledPresent, ensured, written, desktop, tmp,
                   sqroot, toolDir, link, script, scriptOrig, downloads, stale,
                   staged, invoked, patched>>

\* the process started by hand has ended
DirectEnd(c) ==
    /\ pc[c] \in {"done", "failed", "crashed"}
    /\ direct[c]
    /\ Return(c)
    /\ UNCHANGED <<displayName, run, staging, desktop, tmp, sqroot, toolDir, link,
                   script, scriptOrig, downloads, artifact, stale, staged>>

\* runs of the script started by hand, one after the other
NextDirect ==
    \E c \in Comps :
        \/ (Sequential(c) /\ DirectRun(c) /\ UNCHANGED pureVars)
        \/ (DirectEnd(c) /\ UNCHANGED pureVars)
        \/ (Crash(c) /\ UNCHANGED pureVars)
        \/ (Clean(c) /\ UNCHANGED pureVars)
        \/ (Install(c) /\ UNCHANGED pureVars)
        \/ (Metadata(c) /\ UNCHANGED pureVars)
        \/ (EnsureCheck(c) /\ UNCHANGED pureVars)
        \/ (EnsureDownload(c) /\ UNCHANGED pureVars)
        \/ (EnsureChmod(c) /\ UNCHANGED pureVars)
        \/ (EnsureExtract(c) /\ UNCHANGED pureVars)
        \/ (EnsureRename(c) /\ UNCHANGED pureVars)
        \/ (EnsureLink(c) /\ UNCHANGED pureVars)
        \/ (EnsureRm(c) /\ UNCHANGED pureVars)
        \/ (PluginBranch(c) /\ UNCHANGED pureVars)
        \/ (ScriptCheck(c) /\ UNCHANGED pureVars)
        \/ (ScriptDownload(c) /\ UNCHANGED pureVars)
        \/ (ScriptChmod(c) /\ UNCHANGED pureVars)
        \/ (Patch(c) /\ UNCHANGED pureVars)
        \/ (Deploy(c) /\ UNCHANGED pureVars)

SpecDirect == Init /\ [][NextDirect]_vars


(* ------------- the round trip of EXTRA_ENV_VARS, step by step --------- *)
InitEnv ==
    /\ InitPipe
    /\ NameIdle
    /\ envPc = "call"
    /\ envArgs \in ListsUpTo(EnvEntries, MaxEntries)
    /\ envVar = <<>>
    /\ envDefined = FALSE
    /\ envOut = <<>>

\* AppImage.cmake line 26
EnvParse ==
    /\ envPc = "call"
    /\ envVar' = ParseArguments(envArgs)
    /\ envPc' = "parsed"
    /\ UNCHANGED <<envArgs, envDefined, envOut>>

\* AppImage.cmake lines 64-68
EnvFlatten ==
    /\ envPc = "parsed"
    /\ envDefined' = FlattenDefined(envVar)
    /\ envVar' = IF FlattenDefined(envVar) THEN Flatten(envVar) ELSE envVar
    /\ envPc' = "flat"
    /\ UNCHANGED <<envArgs, envOut>>

\* AppImage.cmake lines 77-83: the custom command starts the script
EnvTransport ==
    /\ envPc = "flat"
    /\ envVar' = IF envDefined THEN Transport(envVar) ELSE envVar
    /\ envPc' = "script"
    /\ UNCHANGED <<envArgs, envDefined, envOut>>

\* LinuxDeployAppImage.cmake lines 150-170
EnvCompose ==
    /\ envPc = "script"
    /\ envOut' = Compose(envDefined, envVar)
    /\ envPc' = "composed"
    /\ UNCHANGED <<envArgs, envVar, envDefined>>

NextEnv ==
    \/ (EnvParse /\ UNCHANGED <<pipeVars, nameVars>>)
    \/ (EnvFlatten /\ UNCHANGED <<pipeVars, nameVars>>)
    \/ (EnvTransport /\ UNCHANGED <<pipeVars, nameVars>>)
    \/ (EnvCompose /\ UNCHANGED <<pipeVars, nameVars>>)

SpecEnv == InitEnv /\ [][NextEnv]_vars

(* -------------------- sanitized_name on its own ----------------------- *)
\* longest display name sanitized_name is evaluated on
MaxNameLen == 4

\* characters of a display name: a letter, the space, the underscore
NameChars == {"A", " ", "_"}

InitName ==
    /\ InitPipe
    /\ EnvIdle
    /\ nmPc = "call"
    /\ nmIn \in StringsUpTo(NameChars, MaxNameLen)
    /\ nmOut = <<>>

\* AppImage.cmake line 48
NameSanitize ==
    /\ nmPc = "call"
    /\ nmOut' = sanitized_name(nmIn)
    /\ nmPc' = "sanitized"
    /\ UNCHANGED nmIn

NextName == NameSanitize /\ UNCHANGED <<pipeVars, envVars>>

SpecName == InitName /\ [][NextName]_vars

(* ============================== claims ================================ *)
IsPrefix(t, s) == Len(t) <= Len(s) /\ t = SubSeq(s, 1, Len(t))

Entered(c, stage) == \E i \in 1..Len(trace[c]) : trace[c][i] = stage

\* the stages a run has entered when its script is at a position
StagesAt(c) ==
    CASE pc[c] = "clean" -> 0
      [] pc[c] = "install" -> 1
      [] pc[c] = "metadata" -> 2
      [] pc[c] = "ens_check" /\ tool[c] = LinuxDeploy -> 3
      [] pc[c] = "done" -> 6
      [] OTHER -> 4

\* C1: the stages of a run are entered in the order Clean, Installed,
\* MetadataWritten, ToolsReady, Deployed, Done, each at most once and only
\* after the stages before it succeeded; a run that ended is in Done, or
\* failed in exactly one stage, the last one it entered.
C1_StagesInOrder ==
    \A c \in Comps :
        /\ IsPrefix(trace[c], Stages)
        /\ (Running(c) \/ pc[c] = "done") => Len(trace[c]) = StagesAt(c)
        /\ Entered(c, "MetadataWritten") => installResult[c] = 0
        /\ Entered(c, "Done") => (deployResult[c] = 0 /\ pc[c] = "done")
        /\ pc[c] = "done" => (trace[c] = Stages /\ failStage[c] = "none")
        /\ pc[c] = "failed" =>
              /\ trace[c] # <<>>
              /\ failStage[c] = trace[c][Len(trace[c])]
              /\ failStage[c] # "Done"
        /\ pc[c] # "failed" => failStage[c] = "none"

\* C1 witness: a second run of a component has gone through all six stages
C1_Witness == \E c \in Comps : pc[c] = "done" /\ run[c] = 2 /\ trace[c] = Stages

\* C2: when the install procedure exits nonzero the run has failed in the
\* Installed stage, no descriptor and no icon placeholder exist, ensure was
\* not called for any tool and the deployment tool was not invoked.
C2_InstallFailureHalts ==
    \A c \in Comps :
        installResult[c] = 1 =>
            /\ pc[c] = "failed"
            /\ failStage[c] = "Installed"
            /\ desktop[c] = NoFile
            /\ staging[c]["desktop"] = Absent
            /\ staging[c]["icon"] = Absent
            /\ ensured[c] = <<>>
            /\ invoked[c] = NoFile
            /\ deployResult[c] = -1

\* C2 witness: an install that failed and left part of the tree behind, in a
\* build tree whose tool cache was already filled
C2_Witness ==
    \E c \in Comps :
        installResult[c] = 1 /\ staging[c]["bin"] = Fresh /\ link[LinuxDeploy]

\* C3: an ensure call that finds the link of its tool present runs no step of
\* the function's body, and once the link of a tool exists no step downloads
\* the tool again, renames onto its directory or touches its link.
C3_EnsureIdempotent ==
    /\ [](\A c \in Comps : calledPresent[c] => pc[c] \notin EnsureBody)
    /\ [][\A t \in Tools : link[t] =>
              /\ downloads'[t] = downloads[t]
              /\ toolDir'[t] = toolDir[t]
              /\ link'[t]
              /\ (tmp'[t] = tmp[t] \/ tmp'[t] = NoFile)]_vars

\* C3 witness: a later run's ensure of linuxdeploy returned at the presence
\* check, after exactly one download of the tool
C3_Witness ==
    \E c \in Comps :
        /\ pc[c] = "plugin"
        /\ calledPresent[c]
        /\ ensured[c] = <<LinuxDeploy>>
        /\ downloads[LinuxDeploy] = 1

\* C4: the patch is idempotent: the cached script holds what was downloaded
\* or that content patched once, however many runs have patched it.
C4_PatchIdempotent ==
    script # NoFile => script.content \in {scriptOrig, ApplyPatch(scriptOrig)}

\* C5: an ensure that follows an interrupted one does not fail on what the
\* interrupted one left: no run fails at the rename of the extraction
\* directory while the tool's directory exists and its link does not.
C5_RetryAfterCrash ==
    \A c \in Comps :
        ~(/\ pc[c] = "failed"
          /\ failWhy[c] = "rename"
          /\ toolDir[tool[c]]
          /\ ~link[tool[c]])

\* C6: a failed run has written no artifact, its unit is not up to date (so
\* whatever file is at the artifact path is not taken for its result), and
\* install(FILES) stages a file only after a build step that succeeded.
C6_NoArtifactFromFailedRun ==
    \A c \in Comps :
        /\ pc[c] = "failed" =>
              /\ written[c] = {}
              /\ ~(artifact[ArtifactPathOf(c)] # NoFile /\ ~stale[c])
              /\ \A p \in ArtifactPaths :
                    artifact[p] # NoFile => ~(artifact[p].by = c /\ artifact[p].fresh)
        /\ staged[c] # NoFile => staged[c].after \in {"done", "uptodate"}

\* C6 witness: a run failed while the artifact of an earlier successful run
\* of the same component is still at the artifact path
C6_Witness ==
    \E c \in Comps :
        /\ pc[c] = "failed"
        /\ artifact[ArtifactPathOf(c)] # NoFile
        /\ artifact[ArtifactPathOf(c)].by = c

\* C7: a run is in Done only with a zero exit of the deployment tool, and then
\* the one file it wrote is at the path computed from the display name, which
\* is the path the tool derived from the descriptor's Name; a nonzero exit
\* ends the run as failed in the Deployed stage with nothing written.
C7_DoneHasArtifact ==
    \A c \in Comps :
        /\ pc[c] = "done" =>
              /\ deployResult[c] = 0
              /\ desktop[c] # NoFile
              /\ desktop[c].name = displayName[c]
              /\ written[c] = {ArtifactPathOf(c)}
              /\ artifact[ArtifactPathOf(c)] = [by |-> c, fresh |-> TRUE]
        /\ deployResult[c] = 1 =>
              /\ pc[c] = "failed"
              /\ failStage[c] = "Deployed"
              /\ written[c] = {}
              /\ ~Entered(c, "Done")

\* C7 witness: the component whose display name holds a space is in Done
C7_Witness ==
    \E c \in Comps :
        /\ pc[c] = "done"
        /\ \E i \in 1..Len(displayName[c]) : displayName[c][i] = " "
        /\ artifact[ArtifactPathOf(c)] # NoFile

\* C8: from the Installed stage on, the staging tree holds no file from before
\* the run, whatever it held when the run started; Clean never fails.
C8_StagingReset ==
    \A c \in Comps :
        /\ ((Running(c) /\ pc[c] # "clean") \/ pc[c] \in {"done", "failed"}) =>
              \A f \in StagingFiles : staging[c][f] # Old
        /\ failStage[c] # "Clean"
        /\ (pc[c] = "install" => \A f \in StagingFiles : staging[c][f] = Absent)

\* C8 witness: the Installed stage begins in a run that found the partial
\* tree of a failed run
C8_Witness == \E c \in Comps : pc[c] = "install" /\ treeBefore[c] = "partial"

\* the entries of a flattened list, split at every separator
RECURSIVE SplitAtSep(_, _)
SplitAtSep(s, cur) ==
    IF s = <<>> THEN (IF cur = <<>> THEN <<>> ELSE <<cur>>)
    ELSE IF s[1] = ";"
         THEN (IF cur = <<>> THEN <<>> ELSE <<cur>>) \o SplitAtSep(Tail(s), <<>>)
         ELSE SplitAtSep(Tail(s), Append(cur, s[1]))

\* an entry with every placeholder replaced by the separator it stands for
RECURSIVE RestoreSep(_)
RestoreSep(e) ==
    IF e = <<>> THEN <<>>
    ELSE <<(IF e[1] = "<SEMICOLON>" THEN ";" ELSE e[1])>> \o RestoreSep(Tail(e))

\* C9: the composed environment is the PATH entry followed by the entries of
\* EXTRA_ENV_VARS, placeholders restored, in their order, none dropped,
\* duplicated or reordered; it is the PATH entry alone when EXTRA_ENV_VARS is
\* undefined or empty.
C9_ComposeOrder ==
    envPc = "composed" =>
        /\ envOut # <<>>
        /\ envOut[1] = PathEntry
        /\ LET entries == IF envDefined THEN SplitAtSep(envVar, <<>>) ELSE <<>>
           IN  /\ Len(envOut) = 1 + Len(entries)
               /\ \A i \in 1..Len(entries) : envOut[i + 1] = RestoreSep(entries[i])

\* C9 witness: two extra variables were composed, the first with a placeholder
C9_Witness ==
    /\ envPc = "composed"
    /\ Len(envOut) = 3
    /\ \E i \in 1..Len(envVar) : envVar[i] = "<SEMICOLON>"
    /\ envOut[2] # envOut[3]

\* C10: the entries handed to the deployment tool are the arguments given
\* after EXTRA_ENV_VARS, as many and in the same order, each with its
\* placeholders restored to ";" and no value split.
C10_RoundTrip ==
    envPc = "composed" =>
        /\ Len(envOut) = 1 + Len(envArgs)
        /\ \A i \in 1..Len(envArgs) : envOut[i + 1] = RestoreSep(envArgs[i])

\* C11: sanitized_name has the length of the display name, holds "_" wherever
\* the display name holds a space, and the display name's character everywhere
\* else.
C11_SanitizedName ==
    nmPc = "sanitized" =>
        /\ Len(nmOut) = Len(nmIn)
        /\ \A i \in 1..Len(nmIn) :
              nmOut[i] = (IF nmIn[i] = " " THEN "_" ELSE nmIn[i])

\* C11 witness: a name with two spaces, an underscore and a letter was sanitized
C11_Witness ==
    /\ nmPc = "sanitized"
    /\ Cardinality({i \in 1..Len(nmIn) : nmIn[i] = " "}) = 2
    /\ \E i \in 1..Len(nmIn) : nmIn[i] = "_"
    /\ \E i \in 1..Len(nmIn) : nmIn[i] = "A"

\* C12: a build request finds the unit up to date only when the artifact
\* exists and is newer than the executable, and then runs nothing; in every
\* other case it starts a run of the script at its first line, and a run that
\* is past Clean has entered Clean first.
C12_UpToDateOrFullRun ==
    /\ [](\A c \in Comps :
            /\ pc[c] = "uptodate" =>
                  (artifact[appimage_full_path(displayName[c])] # NoFile /\ ~stale[c])
            /\ (Running(c) /\ pc[c] # "clean") =>
                  (trace[c] # <<>> /\ trace[c][1] = "Clean"))
    /\ [][\A c \in Comps :
            (pc[c] = "idle" /\ pc'[c] # "idle") =>
                IF artifact[appimage_full_path(displayName[c])] # NoFile /\ ~stale[c]
                THEN /\ pc'[c] = "uptodate"
                     /\ run'[c] = run[c]
                     /\ UNCHANGED <<staging, desktop, artifact, script, link>>
                ELSE /\ pc'[c] = "clean"
                     /\ run'[c] = run[c] + 1
                     /\ trace'[c] = <<>>]_vars

\* C12 witness: the artifact exists but the executable is newer, and the run
\* the build request started has gone through Clean
C12_Witness ==
    \E c \in Comps :
        /\ pc[c] = "install"
        /\ stale[c]
        /\ artifact[ArtifactPathOf(c)] # NoFile
        /\ run[c] = 2

\* C13: install(FILES) copies the artifact into the component's package only
\* in the step that follows a build of the unit that ended with result 0, and
\* it copies the file at the artifact path; a build that failed ends the
\* install step without anything being copied.
C13_StagedAfterBuild ==
    [][\A c \in Comps :
          /\ staged'[c] # staged[c] =>
                /\ pc[c] \in {"done", "uptodate"}
                /\ pc'[c] = "idle"
                /\ staged'[c].file = artifact[appimage_full_path(displayName[c])]
          /\ (pc[c] \in {"failed", "crashed"} /\ pc'[c] # pc[c]) =>
                (pc'[c] = "idle" /\ staged'[c] = staged[c])]_vars

\* C13 witness: the artifact a component's first run wrote has been copied
\* into its package after that run ended in Done
C13_Witness ==
    \E c \in Comps :
        /\ pc[c] = "idle"
        /\ run[c] = 1
        /\ staged[c] # NoFile
        /\ staged[c].after = "done"
        /\ staged[c].file.by = c

\* C14: a failing step of ensure_appimage_tool ends the call at that step: no
\* step after the download runs on an incomplete download, no step after the
\* chmod runs on a file that was not made executable, and a run fails with
\* the extraction's error only when the extraction itself was what failed.
C14_StepErrors ==
    \A c \in Comps :
        /\ pc[c] \in EnsureBody \ {"ens_download"} =>
              (tmp[tool[c]] # NoFile /\ tmp[tool[c]].complete)
        /\ pc[c] \in EnsureBody \ {"ens_download", "ens_chmod"} =>
              (tmp[tool[c]] # NoFile /\ tmp[tool[c]].exec)
        /\ (pc[c] = "failed" /\ failWhy[c] = "extract") =>
              (tmp[tool[c]] # NoFile /\ tmp[tool[c]].complete /\ tmp[tool[c]].exec)

\* C15: a run of the script that lacks COMPONENT_NAME, APP_NAME or
\* EXECUTABLE_NAME ends with the error of the input checks before it enters
\* Clean, and the step that ends it changes nothing in the staging tree, the
\* tool cache or at the artifact paths; a run that lacks only PLUGIN_TYPE goes
\* on with "qt".
C15_ConfigurationError ==
    /\ [](\A c \in Comps :
            /\ failWhy[c] = "config" =>
                  (pc[c] = "failed" /\ trace[c] = <<>> /\ ~(Required \subseteq given[c]))
            /\ trace[c] # <<>> =>
                  /\ Required \subseteq given[c]
                  /\ "PLUGIN_TYPE" \notin given[c] => plugin[c] = "qt")
    /\ [][\A c \in Comps :
            (pc[c] = "clean" /\ ~(Required \subseteq given[c]) /\ pc'[c] # pc[c]) =>
                /\ pc'[c] \in {"failed", "crashed"}
                /\ pc'[c] = "failed" => failWhy'[c] = "config"
                /\ UNCHANGED <<staging, desktop, tmp, sqroot, toolDir, link, script,
                               downloads, artifact>>]_vars

\* C15 witness: a run with a required input missing has failed at the input
\* checks, in a build tree that holds the staging tree, the tools and the
\* artifact of an earlier run
C15_Witness ==
    \E c \in Comps :
        /\ pc[c] = "failed"
        /\ failWhy[c] = "config"
        /\ staging[c]["bin"] = Old
        /\ link[LinuxDeploy]
        /\ artifact[ArtifactPathOf(c)] # NoFile

\* C16: the tool cache only grows: no step of any run removes the link of a
\* tool, the directory the link points into, or the script at its final path.
C16_CacheAppendOnly ==
    [][/\ \A t \in Tools : (link[t] => link'[t]) /\ (toolDir[t] => toolDir'[t])
       /\ script # NoFile => script' # NoFile]_vars

\* C16 witness: a run has failed in a build tree whose cache holds both tools
\* and the script
C16_Witness ==
    \E c \in Comps :
        /\ pc[c] = "failed"
        /\ link[LinuxDeploy]
        /\ link[QtPlugin]
        /\ script # NoFile

\* C17: nothing but the link of a tool keeps a run out of the body of
\* ensure_appimage_tool: a presence check that finds no link goes on to the
\* download, whatever the runs of other components are doing.
C17_NoAcquisitionGuard ==
    [][\A c \in Comps :
          (pc[c] = "ens_check" /\ pc'[c] \notin {"ens_check", "crashed"}) =>
              IF link[tool[c]]
              THEN pc'[c] \notin EnsureBody
              ELSE pc'[c] = "ens_download"]_vars

\* C17 witness: against an empty cache two runs are in the body of
\* ensure_appimage_tool for the same tool, each has downloaded to the one
\* temporary path, and both are about to rename the one squashfs-root
C17_Witness ==
    /\ pc["c1"] = "ens_rename"
    /\ pc["c2"] = "ens_rename"
    /\ tool["c1"] = tool["c2"]
    /\ downloads[tool["c1"]] = 2
    /\ sqroot = tool["c1"]
    /\ \A t \in Tools : ~link[t] /\ ~toolDir[t]

\* C18: a run for one component leaves the artifact of every other component
\* alone: it writes no file at another component's artifact path, and the
\* file at a component's artifact path was written by a run of that component.
C18_NoInterference ==
    \A c \in Comps : \A d \in Comps \ {c} :
        /\ ArtifactPathOf(d) \notin written[c]
        /\ artifact[ArtifactPathOf(d)] # NoFile => artifact[ArtifactPathOf(d)].by = d

\* C19: ensure is called for linuxdeploy first; when the deployment tool is
\* about to be or has been invoked, a run with plugin type "qt" has ensured
\* linuxdeploy and the qt plugin and patched nothing, one with "gtk" has
\* ensured linuxdeploy and the gtk script and applied the patch once, one with
\* any other type has ensured linuxdeploy alone; the tool is invoked with the
\* run's plugin type as its --plugin.
C19_PluginBranch ==
    \A c \in Comps :
        /\ ensured[c] # <<>> => ensured[c][1] = LinuxDeploy
        /\ (pc[c] = "deploy" \/ invoked[c] # NoFile) =>
              /\ ensured[c] = (IF plugin[c] = "qt" THEN <<LinuxDeploy, QtPlugin>>
                               ELSE IF plugin[c] = "gtk" THEN <<LinuxDeploy, GtkScript>>
                               ELSE <<LinuxDeploy>>)
              /\ patched[c] = (IF plugin[c] = "gtk" THEN 1 ELSE 0)
        /\ invoked[c] # NoFile =>
              (invoked[c].plugin = plugin[c] /\ Entered(c, "Deployed"))

\* C19 witness: a run with a plugin type that is neither "qt" nor "gtk" has
\* invoked the deployment tool with it and ended in Done
C19_Witness ==
    \E c \in Comps :
        /\ plugin[c] = "wx"
        /\ invoked[c] # NoFile
        /\ invoked[c].plugin = "wx"
        /\ pc[c] = "done"

\* C20: when ensure_shell_script finds the script at its final path and
\* skips the download, the script there was downloaded completely and is
\* executable.
C20_PresentScriptIsComplete ==
    \A c \in Comps :
        (pc[c] = "patch" /\ calledPresent[c]) =>
            (script # NoFile /\ script.complete /\ script.exec)

====
